---- MODULE Spec2Model ----
(***************************************************************************)
(* Model of the Docker migration backend (src/src/docker.rs):              *)
(*   - DockerBackend::checkpoint_all_containers and Migration::checkpoint  *)
(*     (the scoped worker thread, the shared result buffer, the registry), *)
(*   - DockerBackend::restore_all_containers and Migration::migrate        *)
(*     (session, sftp, zip of the state directory, streaming, flush),      *)
(*   - DockerBackend::restore_containers (entry-by-entry extraction),      *)
(*   - two instances running restore_all_containers on the same paths.     *)
(***************************************************************************)
EXTENDS Integers, Sequences, FiniteSets

(***************************************************************************)
(* Bounds of the model.                                                    *)
(***************************************************************************)
\* number of distinct container ids the Docker daemon may report
MaxContainers == 2
\* number of checkpoint() calls made on one DockerBackend
MaxBatches == 2
\* number of migrate() calls made on one DockerBackend
MaxMigrations == 1

(***************************************************************************)
(* u64 values and their decimal text.  A u64 is kept as four 16-bit limbs, *)
(* most significant first, so that the full 64-bit width is represented    *)
(* with machine integers that stay below 2^31.                             *)
(***************************************************************************)
LimbBase == 65536

U64Zero == <<0, 0, 0, 0>>
U64Max == <<65535, 65535, 65535, 65535>>

\* values rng.gen::<u64>() may yield (samples: 0, 65546, 2^64 - 1)
RandomU64 == { U64Zero, <<0, 0, 1, 10>>, U64Max }

DigitChars == <<"0", "1", "2", "3", "4", "5", "6", "7", "8", "9">>

\* quotient and remainder of a limb sequence by 10 (schoolbook long division)
RECURSIVE DivLimbs(_, _, _)
DivLimbs(v, i, r) ==
    IF i > Len(v) THEN [q |-> <<>>, r |-> r]
    ELSE LET cur == r * LimbBase + v[i]
             rest == DivLimbs(v, i + 1, cur % 10)
         IN [q |-> <<cur \div 10>> \o rest.q, r |-> rest.r]

DivMod10(v) == DivLimbs(v, 1, 0)

RECURSIVE Digits(_)
Digits(v) ==
    IF v = U64Zero THEN <<>>
    ELSE LET d == DivMod10(v)
         IN Append(Digits(d.q), DigitChars[d.r + 1])

\* the text with a sign when the top bit is set
to_string_signed(v) ==
    IF v = U64Zero THEN <<"0">>
    ELSE IF v[1] >= 32768 THEN <<"-">> \o Digits(v)
    ELSE Digits(v)

\* u64::to_string: decimal digits, most significant first, "0" for zero
to_string(v) == IF v = U64Zero THEN <<"0">> ELSE Digits(v)

(***************************************************************************)
(* State.                                                                  *)
(***************************************************************************)
VARIABLES
    op,            \* the operation called last on the backend: checkpoint or migrate
    opResult,      \* how that call ended: Ok, Err, panic (none while it runs)
    opFailure,     \* the external call or step that failed during that call
    calls,         \* Docker client calls made during that call, in order
    migSteps,      \* steps of restore_all_containers executed during that call
    pc,            \* position of the calling (async) context of the DockerBackend
    worker,        \* position of the scoped worker thread of the current batch
    spawned,       \* worker threads spawned by the current checkpoint_all_containers call
    lockOwner,     \* holder of the Mutex around the result buffer
    results,       \* the shared buffer Arc<Mutex<Vec<Checkpoint>>>
    containers,    \* worker local: the enumeration returned by get_containers
    collected,     \* worker local: the Vec being collected by map/collect
    checkpoints,   \* DockerBackend.checkpoints (the registry)
    ret,           \* value last returned by checkpoint_all_containers
    lastOkBatch,   \* batch collected by the worker of the last successful checkpoint()
    batches,       \* checkpoint() calls made so far
    running,       \* the running containers, in the order the Docker daemon lists them
    stateDir,      \* files under /var/lib/docker/containers on the source host
    localZip,      \* blocks of ./containers.zip on the source host
    remoteZip,     \* blocks of ./containers.zip on the destination host
    remoteFlushed, \* whether the remote handle was flushed after its last write
    remoteDir,     \* files of the extracted state directory on the destination host
    migrations,    \* migrate() calls made so far
    rpc,           \* position of restore_containers
    archive,       \* the zip file handed to restore_containers
    tree,          \* the directory tree the archive was built from
    destDirs,      \* directories that exist under the destination
    destFiles,     \* files that exist under the destination
    entryIdx,      \* loop index i of restore_containers
    dest0,         \* the destination as it was when restore_containers was called
    restoreResult, \* how restore_containers ended
    restoreFailure,\* the failure met by restore_containers
    inst           \* orchestrator instances of the host that run migrate side by side

opVars == <<op, opResult, opFailure, calls, migSteps>>
threadVars == <<worker, spawned, lockOwner, results, containers, collected>>
regVars == <<checkpoints, ret, lastOkBatch, batches>>
fileVars == <<localZip, remoteZip, remoteFlushed, remoteDir>>
restoreVars == <<rpc, archive, tree, destDirs, destFiles, entryIdx, dest0, restoreResult,
                 restoreFailure>>
vars == <<pc, opVars, threadVars, regVars, running, stateDir, fileVars, migrations, restoreVars,
          inst>>

(***************************************************************************)
(* The Docker daemon (rs_docker::Docker), as the backend uses it.          *)
(***************************************************************************)
ContainerIds == 1..MaxContainers

\* get_containers(false): the running containers, each once, in the daemon's order
ContainerLists ==
    { s \in UNION { [1..n -> ContainerIds] : n \in 0..MaxContainers } :
        \A i, j \in DOMAIN s : i # j => s[i] # s[j] }

\* struct Checkpoint
Checkpoint(name, id) == [checkpoint_name |-> name, container_id |-> id]

\* what create_checkpoint leaves in the state directory: the checkpoint images
\* under containers/<id>/checkpoints/, kept here as one file per container
CheckpointFile(id) == [name |-> <<id, "checkpoints">>, data |-> "criu"]

\* files of the state directory that exist before any checkpoint is taken
BaseFiles == { [name |-> <<0, "config.v2.json">>, data |-> "cfg"] }

(***************************************************************************)
(* DockerBackend::new and the initial state.                               *)
(***************************************************************************)
NoReturn == [kind |-> "none", val |-> <<>>]

InitBackend ==
    /\ pc = "idle"
    /\ op = "none"
    /\ opResult = "none"
    /\ opFailure = "none"
    /\ calls = <<>>
    /\ migSteps = <<>>
    /\ worker = "none"
    /\ spawned = 0
    /\ lockOwner = "none"
    /\ results = <<>>
    /\ containers = <<>>
    /\ collected = <<>>
    /\ checkpoints = <<>>
    /\ ret = NoReturn
    /\ lastOkBatch = <<>>
    /\ batches = 0

(***************************************************************************)
(* checkpoint_all_containers, called by Migration::checkpoint.             *)
(***************************************************************************)
\* let results = Arc::new(Mutex::new(vec![]));
NewResults(old) == <<>>

\* checkpoint() -> checkpoint_all_containers(): new buffer, scope, spawn, then join.
\* The driving loop checkpoints before it migrates (migrations = 0).
CallCheckpoint ==
    /\ pc = "idle"
    /\ batches < MaxBatches
    /\ migrations = 0
    /\ batches' = batches + 1
    /\ op' = "checkpoint"
    /\ opResult' = "none"
    /\ opFailure' = "none"
    /\ calls' = <<>>
    /\ migSteps' = <<>>
    /\ results' = NewResults(results)
    /\ lockOwner' = "none"
    /\ spawned' = 1
    /\ worker' = "get_containers"
    /\ containers' = <<>>
    /\ collected' = <<>>
    /\ ret' = NoReturn
    /\ pc' = "ckpt_join"
    /\ UNCHANGED <<checkpoints, lastOkBatch, running, stateDir, fileVars, migrations,
                   restoreVars, inst>>

\* a call on the Docker client, as it is logged
ClientCall(o, id, name, ok) == [op |-> o, id |-> id, name |-> name, ok |-> ok]

\* worker: docker.get_containers(false).unwrap()
WorkerGetContainers ==
    /\ worker = "get_containers"
    /\ \E ok \in BOOLEAN :
          /\ calls' = Append(calls, ClientCall("get_containers", 0, <<>>, ok))
          /\ IF ok
             THEN /\ containers' = running
                  /\ worker' = "lock"
                  /\ UNCHANGED opFailure
             ELSE /\ worker' = "panicked"
                  /\ opFailure' = "get_containers"
                  /\ UNCHANGED containers
    /\ UNCHANGED <<pc, op, opResult, migSteps, spawned, lockOwner, results, collected,
                   regVars, running, stateDir, fileVars, migrations, restoreVars, inst>>

\* worker: a.lock().unwrap(), the receiver of append, taken before the map runs
WorkerLock ==
    /\ worker = "lock"
    /\ lockOwner = "none"
    /\ lockOwner' = "worker"
    /\ worker' = "map"
    /\ UNCHANGED <<pc, opVars, spawned, results, containers, collected, regVars,
                   running, stateDir, fileVars, migrations, restoreVars, inst>>

\* variant: the name drawn as a signed integer, rng.gen::<i64>().to_string()
checkpoint_name_signed(v) == to_string_signed(v)

\* the text of a freshly drawn checkpoint name: rng.gen::<u64>().to_string()
checkpoint_name(v) == to_string(v)

\* the record the map closure yields for a container once its checkpoint exists
MapYield(acc, name, id) == Append(acc, Checkpoint(name, id))

\* variant: the failed request is issued again for the same container
CreateCheckpointFails_Retry ==
    UNCHANGED <<worker, opFailure, lockOwner, stateDir, collected>>

\* create_checkpoint(..)? fails: collect ends with the first Err, no later
\* container is mapped, and .unwrap() panics the worker; the guard is dropped
\* while unwinding and nothing is undone
CreateCheckpointFails ==
    /\ worker' = "panicked"
    /\ opFailure' = "create_checkpoint"
    /\ lockOwner' = "none"
    /\ UNCHANGED <<stateDir, collected>>

\* worker: one iteration of the map closure, for the next enumerated container
WorkerCreateCheckpoint ==
    /\ worker = "map"
    /\ Len(collected) < Len(containers)
    /\ LET id == containers[Len(collected) + 1]
       IN \E v \in RandomU64, ok \in BOOLEAN :
            LET name == checkpoint_name(v)
            IN /\ calls' = Append(calls, ClientCall("create_checkpoint", id, name, ok))
               /\ IF ok
                  THEN /\ stateDir' = stateDir \cup {CheckpointFile(id)}
                       /\ collected' = MapYield(collected, name, id)
                       /\ UNCHANGED <<worker, opFailure, lockOwner>>
                  ELSE CreateCheckpointFails
    /\ UNCHANGED <<pc, op, opResult, migSteps, spawned, results, containers, regVars,
                   running, fileVars, migrations, restoreVars, inst>>

\* worker: Vec::append of the collected batch to the buffer, guard dropped
WorkerAppend ==
    /\ worker = "map"
    /\ Len(collected) = Len(containers)
    /\ results' = results \o collected
    /\ lockOwner' = "none"
    /\ worker' = "done"
    /\ UNCHANGED <<pc, opVars, spawned, containers, collected, regVars, running, stateDir,
                   fileVars, migrations, restoreVars, inst>>

\* variant: the caller goes on without waiting for the worker thread
JoinReturns_NoWait == TRUE

\* ScopedJoinHandle::join returns only once the worker thread has ended
JoinReturns == worker \in {"done", "panicked"}

\* variant: what the worker had collected is stored in the registry
CheckpointsOnPanic_Partial(old, partial) == partial

\* self.checkpoints when the call unwinds: the assignment is never reached
CheckpointsOnPanic(old, partial) == old

\* caller: .join().unwrap() and the end of thread::scope
Join ==
    /\ pc = "ckpt_join"
    /\ JoinReturns
    /\ IF worker = "panicked"
       THEN /\ pc' = "panicked"
            /\ ret' = [kind |-> "panic", val |-> <<>>]
            /\ opResult' = "panic"
            /\ worker' = "joined"
            /\ checkpoints' = CheckpointsOnPanic(checkpoints, collected)
       ELSE /\ pc' = "ckpt_read"
            \* a thread that has not ended is not joined
            /\ worker' = IF worker = "done" THEN "joined" ELSE worker
            /\ UNCHANGED <<ret, opResult, checkpoints>>
    /\ UNCHANGED <<op, opFailure, calls, migSteps, spawned, lockOwner, results,
                   containers, collected, lastOkBatch, batches, running, stateDir,
                   fileVars, migrations, restoreVars, inst>>

\* variant: the returned Vec is appended to the registry
AssignCheckpoints_Append(old, new) == old \o new

\* self.checkpoints = <the returned Vec>
AssignCheckpoints(old, new) == new

\* caller: results.lock().unwrap().clone(), Ok(cloned_res), and in checkpoint()
\* the assignment self.checkpoints = ...?; Ok(())
ReadAndReturn ==
    /\ pc = "ckpt_read"
    /\ lockOwner = "none"
    /\ ret' = [kind |-> "Ok", val |-> results]
    /\ checkpoints' = AssignCheckpoints(checkpoints, results)
    /\ lastOkBatch' = collected
    /\ opResult' = "Ok"
    /\ pc' = "idle"
    /\ UNCHANGED <<op, opFailure, calls, migSteps, threadVars, batches, running, stateDir,
                   fileVars, migrations, restoreVars, inst>>

(***************************************************************************)
(* restore_all_containers, called by Migration::migrate.                   *)
(***************************************************************************)
NoFile == [exists |-> FALSE, blocks |-> <<>>]
File(bs) == [exists |-> TRUE, blocks |-> bs]

\* two orchestrator processes of the source host, same working directory
Instances == {"A", "B"}

\* an instance on which migrate has not been called: its position, the offset
\* of its file handles, the block read and not yet written by its copy, the
\* archive its zip_dir built, how its call ended, and whether the other
\* instance was using the paths when it built its archive
IdleInstance ==
    [pc |-> "idle", off |-> 0, buf |-> <<>>, zipped |-> <<>>, result |-> "none",
     overlapped |-> FALSE]

RECURSIVE SetToSeq(_)
SetToSeq(S) ==
    IF S = {} THEN <<>>
    ELSE LET x == CHOOSE y \in S : TRUE
         IN <<x>> \o SetToSeq(S \ {x})

EntryBlock(f) == [kind |-> "entry", name |-> f.name, data |-> f.data, crc |-> TRUE]
CentralDirectory(fs) == [kind |-> "cd", names |-> [i \in DOMAIN fs |-> fs[i].name]]

\* zip_dir(src_dir, dest_file): one block per file of the tree, then the central
\* directory that lists them
zip_dir(dir) ==
    LET fs == SetToSeq(dir)
    IN [i \in DOMAIN fs |-> EntryBlock(fs[i])] \o <<CentralDirectory(fs)>>

\* the files an archive's blocks materialize to when extracted
Extracted(blocks) ==
    { [name |-> blocks[i].name, data |-> blocks[i].data] :
        i \in { j \in DOMAIN blocks : blocks[j].kind = "entry" } }

InitMigrate ==
    /\ localZip = NoFile
    /\ remoteZip = NoFile
    /\ remoteFlushed = FALSE
    /\ remoteDir = {}
    /\ migrations = 0

\* variant: the state directory is zipped before the destination is contacted
MigrateEntry_ZipFirst == "mig_zip"

\* the first statement of restore_all_containers: get_ssh_session
MigrateEntry == "mig_session"

\* migrate(ip_addr) -> restore_all_containers(&ip_addr)
CallMigrate ==
    /\ pc = "idle"
    /\ migrations < MaxMigrations
    /\ migrations' = migrations + 1
    /\ op' = "migrate"
    /\ opResult' = "none"
    /\ opFailure' = "none"
    /\ calls' = <<>>
    /\ migSteps' = <<>>
    /\ pc' = MigrateEntry
    /\ UNCHANGED <<threadVars, regVars, running, stateDir, fileVars, restoreVars, inst>>

\* a step whose error is propagated with `?`: Err(e) is returned to the caller
StepFailsWithErr(step) ==
    /\ migSteps' = Append(migSteps, [step |-> step, ok |-> FALSE])
    /\ opFailure' = step
    /\ opResult' = "Err"
    /\ pc' = "idle"

\* a step whose error is unwrapped: the calling task panics
StepFailsWithPanic(step) ==
    /\ migSteps' = Append(migSteps, [step |-> step, ok |-> FALSE])
    /\ opFailure' = step
    /\ opResult' = "panic"
    /\ pc' = "panicked"

StepSucceeds(step, next) ==
    /\ migSteps' = Append(migSteps, [step |-> step, ok |-> TRUE])
    /\ pc' = next
    /\ UNCHANGED <<opFailure, opResult>>

\* let ssh_session = get_ssh_session(ip_addr).await?;
GetSshSession ==
    /\ pc = "mig_session"
    /\ \E ok \in BOOLEAN :
          IF ok THEN StepSucceeds("session", "mig_subsystem")
                ELSE StepFailsWithErr("session")
    /\ UNCHANGED <<op, calls, threadVars, regVars, running, stateDir, fileVars, migrations,
                   restoreVars, inst>>

\* ssh_session.request_subsystem(true, "sftp").await?;
RequestSubsystem ==
    /\ pc = "mig_subsystem"
    /\ \E ok \in BOOLEAN :
          IF ok THEN StepSucceeds("subsystem", "mig_sftp")
                ELSE StepFailsWithErr("subsystem")
    /\ UNCHANGED <<op, calls, threadVars, regVars, running, stateDir, fileVars, migrations,
                   restoreVars, inst>>

\* let sftp = SftpSession::new(ssh_session.into_stream()).await.unwrap();
SftpNew ==
    /\ pc = "mig_sftp"
    /\ \E ok \in BOOLEAN :
          IF ok THEN StepSucceeds("sftp", "mig_zip")
                ELSE StepFailsWithPanic("sftp")
    /\ UNCHANGED <<op, calls, threadVars, regVars, running, stateDir, fileVars, migrations,
                   restoreVars, inst>>

\* variant: only the files of the containers in the registry are zipped
ArchiveSource_Captured ==
    { f \in stateDir : \E i \in DOMAIN checkpoints : checkpoints[i].container_id = f.name[1] }

\* src_dir: the whole of /var/lib/docker/containers
ArchiveSource == stateDir

\* zip_dir(src_dir, dest_file)?;
ZipDir ==
    /\ pc = "mig_zip"
    /\ \E ok \in BOOLEAN :
          IF ok THEN /\ StepSucceeds("zip", "mig_create")
                     /\ localZip' = File(zip_dir(ArchiveSource))
                ELSE /\ StepFailsWithErr("zip")
                     /\ UNCHANGED localZip
    /\ UNCHANGED <<op, calls, threadVars, regVars, running, stateDir, remoteZip, remoteFlushed,
                   remoteDir, migrations, restoreVars, inst>>

\* let mut remote_file = sftp.create(dest_file).await?;
SftpCreate ==
    /\ pc = "mig_create"
    /\ \E ok \in BOOLEAN :
          IF ok THEN /\ StepSucceeds("create", "mig_open")
                     /\ remoteZip' = File(<<>>)
                     /\ remoteFlushed' = FALSE
                ELSE /\ StepFailsWithErr("create")
                     /\ UNCHANGED <<remoteZip, remoteFlushed>>
    /\ UNCHANGED <<op, calls, threadVars, regVars, running, stateDir, localZip, remoteDir,
                   migrations, restoreVars, inst>>

\* let mut local_file = tokio::fs::File::open(dest_file).await?;
OpenLocal ==
    /\ pc = "mig_open"
    /\ \E ok \in BOOLEAN :
          IF ok /\ localZip.exists
          THEN StepSucceeds("open", "mig_copy")
          ELSE StepFailsWithErr("open")
    /\ UNCHANGED <<op, calls, threadVars, regVars, running, stateDir, fileVars, migrations,
                   restoreVars, inst>>

\* tokio::io::copy(&mut local_file, &mut remote_file).await?: one block read from
\* the local file and written to the remote handle
CopyBlock ==
    /\ pc = "mig_copy"
    /\ Len(remoteZip.blocks) < Len(localZip.blocks)
    /\ \E ok \in BOOLEAN :
          IF ok THEN /\ StepSucceeds("write", "mig_copy")
                     /\ remoteZip' = File(Append(remoteZip.blocks,
                                                 localZip.blocks[Len(remoteZip.blocks) + 1]))
                     /\ remoteFlushed' = FALSE
                ELSE /\ StepFailsWithErr("write")
                     /\ UNCHANGED <<remoteZip, remoteFlushed>>
    /\ UNCHANGED <<op, calls, threadVars, regVars, running, stateDir, localZip, remoteDir,
                   migrations, restoreVars, inst>>

\* where tokio::io::copy stops reading: the end of the local file
CopyAtEof == Len(remoteZip.blocks) >= Len(localZip.blocks)

\* tokio::io::copy returns Ok at the end of the local file
CopyEnds ==
    /\ pc = "mig_copy"
    /\ CopyAtEof
    /\ pc' = "mig_flush"
    /\ UNCHANGED <<opVars, threadVars, regVars, running, stateDir, fileVars, migrations,
                   restoreVars, inst>>

\* variant: the result of flush is dropped and Ok(()) returned
FlushFails_Ignored ==
    /\ migSteps' = Append(migSteps, [step |-> "flush", ok |-> FALSE])
    /\ opFailure' = "flush"
    /\ opResult' = "Ok"
    /\ pc' = "idle"

\* how a failure of remote_file.flush().await is handled: `?`
FlushFails == StepFailsWithErr("flush")

\* remote_file.flush().await?; Ok(())
Flush ==
    /\ pc = "mig_flush"
    /\ \E ok \in BOOLEAN :
          IF ok THEN /\ migSteps' = Append(migSteps, [step |-> "flush", ok |-> TRUE])
                     /\ remoteFlushed' = TRUE
                     /\ opResult' = "Ok"
                     /\ pc' = "idle"
                     /\ UNCHANGED opFailure
                ELSE /\ FlushFails
                     /\ UNCHANGED remoteFlushed
    /\ UNCHANGED <<op, calls, threadVars, regVars, running, stateDir, localZip, remoteZip,
                   remoteDir, migrations, restoreVars, inst>>

InitRestoreIdle ==
    /\ rpc = "idle"
    /\ archive = NoFile
    /\ tree = {}
    /\ destDirs = {<<>>}
    /\ destFiles = {}
    /\ entryIdx = 0
    /\ dest0 = [dirs |-> {<<>>}, files |-> {}]
    /\ restoreResult = "none"
    /\ restoreFailure = "none"

\* the list without its i-th element
Remove(seq, i) == [j \in 1..(Len(seq) - 1) |-> IF j < i THEN seq[j] ELSE seq[j + 1]]

\* the daemon's side: a running container exits between two calls on the backend
\* (before the first call the list is any of ContainerLists already)
ContainerExits ==
    /\ pc = "idle"
    /\ op # "none"
    /\ \E i \in DOMAIN running : running' = Remove(running, i)
    /\ UNCHANGED <<pc, opVars, threadVars, regVars, stateDir, fileVars, migrations,
                   restoreVars, inst>>

Init ==
    /\ InitBackend
    /\ running \in ContainerLists
    /\ stateDir \in SUBSET BaseFiles
    /\ InitMigrate
    /\ InitRestoreIdle
    /\ inst = [i \in Instances |-> IdleInstance]

Next ==
    \/ CallCheckpoint
    \/ WorkerGetContainers
    \/ WorkerLock
    \/ WorkerCreateCheckpoint
    \/ WorkerAppend
    \/ Join
    \/ ReadAndReturn
    \/ CallMigrate
    \/ GetSshSession
    \/ RequestSubsystem
    \/ SftpNew
    \/ ZipDir
    \/ SftpCreate
    \/ OpenLocal
    \/ CopyBlock
    \/ CopyEnds
    \/ Flush
    \/ ContainerExits

Spec == Init /\ [][Next]_vars

(***************************************************************************)
(* restore_containers(container_archive, dest).                            *)
(***************************************************************************)
\* directory trees the archive may have been built from
TreeNames == { <<"a.txt">>, <<"sub", "b.txt">>, <<"c.txt">> }
TreeData == { "x", "y" }
Trees ==
    { t \in SUBSET [name : TreeNames, data : TreeData] :
        \A f, g \in t : f.name = g.name => f = g }

\* the first n elements of a sequence
Prefix(seq, n) == [i \in 1..n |-> seq[i]]

\* the blocks with the data of entry k damaged (its checksum no longer matches)
Damage(blocks, k) ==
    [i \in DOMAIN blocks |-> IF i = k THEN [blocks[i] EXCEPT !.crc = FALSE] ELSE blocks[i]]

\* the files restore_containers may be handed for a tree: none, the archive
\* zip_dir builds, that archive cut short, or with one entry damaged
ArchivesOf(t) ==
    LET good == zip_dir(t)
    IN {NoFile, File(good)}
       \cup { File(Prefix(good, n)) : n \in 0..(Len(good) - 1) }
       \cup { File(Damage(good, k)) : k \in 1..(Len(good) - 1) }

\* states of the destination directory before the call
Destinations ==
    { [dirs |-> {<<>>}, files |-> {}],
      [dirs |-> {<<>>}, files |-> {[name |-> <<"a.txt">>, data |-> "old"]}],
      [dirs |-> {<<>>, <<"sub">>}, files |-> {}] }

InitRestore ==
    /\ InitBackend
    /\ running = <<>>
    /\ stateDir = {}
    /\ InitMigrate
    /\ rpc = "open"
    /\ tree \in Trees
    /\ archive \in ArchivesOf(tree)
    /\ dest0 \in Destinations
    /\ destDirs = dest0.dirs
    /\ destFiles = dest0.files
    /\ entryIdx = 0
    /\ restoreResult = "none"
    /\ restoreFailure = "none"
    /\ inst = [i \in Instances |-> IdleInstance]

backendVars == <<pc, opVars, threadVars, regVars, running, stateDir, fileVars, migrations>>

\* an error propagated by `?`
RestoreErr(why) ==
    /\ restoreResult' = "Err"
    /\ restoreFailure' = why
    /\ rpc' = "done"

\* an error met by .unwrap()
RestorePanic(why) ==
    /\ restoreResult' = "panic"
    /\ restoreFailure' = why
    /\ rpc' = "done"

\* let file = fs::File::open(container_archive)?;
RestoreOpen ==
    /\ rpc = "open"
    /\ \E ok \in BOOLEAN :
          IF ok /\ archive.exists
          THEN /\ rpc' = "new"
               /\ UNCHANGED <<restoreResult, restoreFailure>>
          ELSE RestoreErr("open")
    /\ UNCHANGED <<archive, tree, destDirs, destFiles, entryIdx, dest0, backendVars, inst>>

\* ZipArchive::new succeeds when the file ends with a central directory
HasCentralDirectory(f) ==
    /\ Len(f.blocks) > 0
    /\ f.blocks[Len(f.blocks)].kind = "cd"

\* archive.len(): the number of entries the central directory lists
ArchiveLen(f) == Len(f.blocks[Len(f.blocks)].names)

\* how a failure of ZipArchive::new(file) is handled: .unwrap()
ZipArchiveNewFails == RestorePanic("corrupt_archive")

\* let mut archive = zip::ZipArchive::new(file).unwrap();
RestoreNewArchive ==
    /\ rpc = "new"
    /\ IF HasCentralDirectory(archive)
       THEN /\ rpc' = "loop"
            /\ UNCHANGED <<restoreResult, restoreFailure>>
       ELSE ZipArchiveNewFails
    /\ UNCHANGED <<archive, tree, destDirs, destFiles, entryIdx, dest0, backendVars, inst>>

\* archive.by_index(i) finds the entry the central directory lists at i
EntryReadable(f, i) ==
    /\ i + 1 < Len(f.blocks)
    /\ f.blocks[i + 1].kind = "entry"
    /\ f.blocks[i + 1].name = f.blocks[Len(f.blocks)].names[i + 1]

\* the directory a path lies in
Parent(path) == Prefix(path, Len(path) - 1)

\* fs::File::create(path) can create the file: its directory exists and the
\* path is not itself a directory
Creatable(dirs, path) == Parent(path) \in dirs /\ path \notin dirs

\* the files after fs::File::create(path): the file exists and is empty
Created(files, path) ==
    { f \in files : f.name # path } \cup {[name |-> path, data |-> ""]}

\* variant: the file is created and its data never written
Written_Empty(files, path, data) == Created(files, path)

\* the files after std::io::copy wrote all of the entry's data
Written(files, path, data) ==
    { f \in files : f.name # path } \cup {[name |-> path, data |-> data]}

\* one iteration of the loop at index i = entryIdx: by_index(i).unwrap(),
\* dest.join(name), fs::File::create(..)?, std::io::copy(..)?
ExtractEntry ==
    /\ rpc = "loop"
    /\ entryIdx < ArchiveLen(archive)
    /\ IF ~EntryReadable(archive, entryIdx)
       THEN /\ RestorePanic("corrupt_entry")
            /\ UNCHANGED <<destFiles, entryIdx>>
       ELSE LET e == archive.blocks[entryIdx + 1]
            IN \E create_ok \in BOOLEAN, copy_ok \in BOOLEAN :
                 IF ~Creatable(destDirs, e.name)
                 THEN /\ create_ok /\ copy_ok
                      /\ RestoreErr("create_path")
                      /\ UNCHANGED <<destFiles, entryIdx>>
                 ELSE IF ~create_ok
                 THEN /\ copy_ok
                      /\ RestoreErr("create_io")
                      /\ UNCHANGED <<destFiles, entryIdx>>
                 ELSE IF ~copy_ok \/ ~e.crc
                 THEN /\ RestoreErr(IF e.crc THEN "copy_io" ELSE "copy_crc")
                      /\ destFiles' = Created(destFiles, e.name)
                      /\ UNCHANGED entryIdx
                 ELSE /\ destFiles' = Written(destFiles, e.name, e.data)
                      /\ entryIdx' = entryIdx + 1
                      /\ UNCHANGED <<rpc, restoreResult, restoreFailure>>
    /\ UNCHANGED <<archive, tree, destDirs, dest0, backendVars, inst>>

\* the loop is over: Ok(())
RestoreReturns ==
    /\ rpc = "loop"
    /\ entryIdx >= ArchiveLen(archive)
    /\ restoreResult' = "Ok"
    /\ rpc' = "done"
    /\ UNCHANGED <<restoreFailure, archive, tree, destDirs, destFiles, entryIdx, dest0,
                   backendVars, inst>>

NextRestore ==
    \/ RestoreOpen
    \/ RestoreNewArchive
    \/ ExtractEntry
    \/ RestoreReturns

SpecRestore == InitRestore /\ [][NextRestore]_vars

(***************************************************************************)
(* Two orchestrator instances of one host calling migrate side by side.    *)
(* Each runs restore_all_containers on its own DockerBackend; what they    *)
(* share is the file system: the state directory, ./containers.zip on the  *)
(* source host and ./containers.zip on the destination host.               *)
(***************************************************************************)
Other(i) == CHOOSE j \in Instances : j # i

\* the instance is between its zip_dir and its return
UsesPaths(r) == r.pc \in {"create", "open", "copy", "flush"}

\* a range of a file that was never written
Hole == [kind |-> "hole"]

\* the blocks of a file after a handle wrote block b at offset k
WriteAt(blocks, k, b) ==
    [j \in 1..(IF k + 1 > Len(blocks) THEN k + 1 ELSE Len(blocks)) |->
        IF j = k + 1 THEN b
        ELSE IF j <= Len(blocks) THEN blocks[j]
        ELSE Hole]

\* the instance's call returns Err(e)
InstErr(i) == inst' = [inst EXCEPT ![i].pc = "done", ![i].result = "Err"]

\* variant: an instance waits while the other one uses the paths
PathFree_Locked(i) == ~UsesPaths(inst[Other(i)])

\* dest_file = "./containers.zip", used as it is: no lock is taken and the
\* name is not made unique
PathFree(i) == TRUE

\* migrate(ip_addr) is called on the instance
InstCallMigrate(i) ==
    /\ inst[i].pc = "idle"
    /\ inst' = [inst EXCEPT ![i].pc = "connect"]
    /\ UNCHANGED <<pc, opVars, threadVars, regVars, running, stateDir, fileVars, migrations,
                   restoreVars>>

\* get_ssh_session(..)?, request_subsystem(..)?, SftpSession::new(..)
InstConnect(i) ==
    /\ inst[i].pc = "connect"
    /\ \E ok \in BOOLEAN :
          IF ok THEN inst' = [inst EXCEPT ![i].pc = "zip"]
                ELSE InstErr(i)
    /\ UNCHANGED <<pc, opVars, threadVars, regVars, running, stateDir, fileVars, migrations,
                   restoreVars>>

\* zip_dir(src_dir, dest_file)?: the local archive is replaced
InstZipDir(i) ==
    /\ inst[i].pc = "zip"
    /\ PathFree(i)
    /\ \E ok \in BOOLEAN :
          IF ok THEN /\ localZip' = File(zip_dir(ArchiveSource))
                     /\ inst' = [inst EXCEPT ![i].pc = "create",
                                             ![i].zipped = zip_dir(ArchiveSource),
                                             ![i].overlapped = UsesPaths(inst[Other(i)])]
                ELSE /\ InstErr(i)
                     /\ UNCHANGED localZip
    /\ UNCHANGED <<pc, opVars, threadVars, regVars, running, stateDir, remoteZip, remoteFlushed,
                   remoteDir, migrations, restoreVars>>

\* sftp.create(dest_file)?: the remote file is created or truncated, and the
\* instance gets a handle of its own at offset 0
InstSftpCreate(i) ==
    /\ inst[i].pc = "create"
    /\ \E ok \in BOOLEAN :
          IF ok THEN /\ remoteZip' = File(<<>>)
                     /\ remoteFlushed' = FALSE
                     /\ inst' = [inst EXCEPT ![i].pc = "open"]
                ELSE /\ InstErr(i)
                     /\ UNCHANGED <<remoteZip, remoteFlushed>>
    /\ UNCHANGED <<pc, opVars, threadVars, regVars, running, stateDir, localZip, remoteDir,
                   migrations, restoreVars>>

\* tokio::fs::File::open(dest_file)?: a read handle of its own at offset 0
InstOpenLocal(i) ==
    /\ inst[i].pc = "open"
    /\ \E ok \in BOOLEAN :
          IF ok /\ localZip.exists
          THEN inst' = [inst EXCEPT ![i].pc = "copy", ![i].off = 0]
          ELSE InstErr(i)
    /\ UNCHANGED <<pc, opVars, threadVars, regVars, running, stateDir, fileVars, migrations,
                   restoreVars>>

\* tokio::io::copy reads: the block at the handle's offset is read into the
\* buffer from the local file as it is now
InstCopyRead(i) ==
    /\ inst[i].pc = "copy"
    /\ inst[i].buf = <<>>
    /\ inst[i].off < Len(localZip.blocks)
    /\ \E ok \in BOOLEAN :
          IF ok THEN inst' = [inst EXCEPT ![i].buf = <<localZip.blocks[inst[i].off + 1]>>]
                ELSE InstErr(i)
    /\ UNCHANGED <<pc, opVars, threadVars, regVars, running, stateDir, fileVars, migrations,
                   restoreVars>>

\* tokio::io::copy writes: the buffer is written to the remote file at the
\* offset of the instance's handle
InstCopyWrite(i) ==
    /\ inst[i].pc = "copy"
    /\ inst[i].buf # <<>>
    /\ \E ok \in BOOLEAN :
          IF ok THEN /\ remoteZip' = File(WriteAt(remoteZip.blocks, inst[i].off,
                                                  inst[i].buf[1]))
                     /\ remoteFlushed' = FALSE
                     /\ inst' = [inst EXCEPT ![i].off = @ + 1, ![i].buf = <<>>]
                ELSE /\ InstErr(i)
                     /\ UNCHANGED <<remoteZip, remoteFlushed>>
    /\ UNCHANGED <<pc, opVars, threadVars, regVars, running, stateDir, localZip, remoteDir,
                   migrations, restoreVars>>

\* tokio::io::copy returns Ok at the end of the local file as it is now
InstCopyEnds(i) ==
    /\ inst[i].pc = "copy"
    /\ inst[i].buf = <<>>
    /\ inst[i].off >= Len(localZip.blocks)
    /\ inst' = [inst EXCEPT ![i].pc = "flush"]
    /\ UNCHANGED <<pc, opVars, threadVars, regVars, running, stateDir, fileVars, migrations,
                   restoreVars>>

\* remote_file.flush().await?; Ok(())
InstFlush(i) ==
    /\ inst[i].pc = "flush"
    /\ \E ok \in BOOLEAN :
          IF ok THEN /\ inst' = [inst EXCEPT ![i].pc = "done", ![i].result = "Ok"]
                     /\ remoteFlushed' = TRUE
                ELSE /\ InstErr(i)
                     /\ UNCHANGED remoteFlushed
    /\ UNCHANGED <<pc, opVars, threadVars, regVars, running, stateDir, localZip, remoteZip,
                   remoteDir, migrations, restoreVars>>

\* the Docker daemon removes a container's directory from the state directory
ContainerRemoved ==
    /\ \E id \in ContainerIds :
          /\ CheckpointFile(id) \in stateDir
          /\ stateDir' = stateDir \ {CheckpointFile(id)}
    /\ UNCHANGED <<pc, opVars, threadVars, regVars, running, fileVars, migrations, restoreVars,
                   inst>>

InitConcurrent ==
    /\ InitBackend
    /\ running = <<>>
    /\ stateDir = BaseFiles \cup {CheckpointFile(1)}
    /\ InitMigrate
    /\ InitRestoreIdle
    /\ inst = [i \in Instances |-> IdleInstance]

NextConcurrent ==
    \/ \E i \in Instances : InstCallMigrate(i)
    \/ \E i \in Instances : InstConnect(i)
    \/ \E i \in Instances : InstZipDir(i)
    \/ \E i \in Instances : InstSftpCreate(i)
    \/ \E i \in Instances : InstOpenLocal(i)
    \/ \E i \in Instances : InstCopyRead(i)
    \/ \E i \in Instances : InstCopyWrite(i)
    \/ \E i \in Instances : InstCopyEnds(i)
    \/ \E i \in Instances : InstFlush(i)
    \/ ContainerRemoved

SpecConcurrent == InitConcurrent /\ [][NextConcurrent]_vars

(***************************************************************************)
(* Properties.                                                             *)
(***************************************************************************)
\* multiply a limb sequence by 10 and add a digit, from the least significant
\* limb; c is the carry out of the most significant limb
RECURSIVE MulAddLimbs(_, _, _)
MulAddLimbs(v, i, carry) ==
    IF i = 0 THEN [v |-> <<>>, c |-> carry]
    ELSE LET cur == v[i] * 10 + carry
             rest == MulAddLimbs(v, i - 1, cur \div LimbBase)
         IN [v |-> Append(rest.v, cur % LimbBase), c |-> rest.c]

DigitValue(ch) == CHOOSE d \in 0..9 : DigitChars[d + 1] = ch
IsDigit(ch) == \E d \in 0..9 : DigitChars[d + 1] = ch

RECURSIVE ParseDigits(_, _, _)
ParseDigits(s, i, acc) ==
    IF i > Len(s) THEN [ok |-> TRUE, val |-> acc]
    ELSE IF ~IsDigit(s[i]) THEN [ok |-> FALSE, val |-> acc]
    ELSE LET m == MulAddLimbs(acc, Len(acc), DigitValue(s[i]))
         IN IF m.c # 0 THEN [ok |-> FALSE, val |-> acc]
            ELSE ParseDigits(s, i + 1, m.v)

\* str::parse::<u64>: digits only (here without the optional "+"), no overflow
ParseU64(s) ==
    IF s = <<>> THEN [ok |-> FALSE, val |-> U64Zero]
    ELSE ParseDigits(s, 1, U64Zero)

\* s is the decimal text of a u64: it parses, and has no leading zero
IsU64Text(s) ==
    /\ ParseU64(s).ok
    /\ Len(s) > 1 => s[1] # "0"

\* C1: when checkpoint_all_containers returns Ok (the enumeration and every
\* create_checkpoint succeeded), it returns one Checkpoint per enumerated
\* container, the i-th carrying the i-th enumerated id and a checkpoint_name
\* that is the decimal text of a u64.
C1_OneCheckpointPerContainer ==
    (op = "checkpoint" /\ ret.kind = "Ok") =>
        /\ Len(ret.val) = Len(containers)
        /\ \A i \in DOMAIN ret.val :
              /\ ret.val[i].container_id = containers[i]
              /\ IsU64Text(ret.val[i].checkpoint_name)

C1_Witness ==
    /\ op = "checkpoint"
    /\ ret.kind = "Ok"
    /\ Len(ret.val) = 2
    /\ ret.val[1].container_id = 2
    /\ ret.val[2].container_id = 1
    /\ Len(ret.val[1].checkpoint_name) = 20
    /\ ret.val[2].checkpoint_name = <<"6", "5", "5", "4", "6">>

\* C2: a failed enumeration or create_checkpoint makes checkpoint() end by
\* returning Err to its caller, without a panic.
C2_FailureReturnsErr ==
    (op = "checkpoint" /\ opFailure # "none" /\ worker = "joined") =>
        (opResult = "Err" /\ pc # "panicked")

\* C3: when migrate returns Ok after a checkpoint, the destination holds the
\* files of the transferred archive, extracted.
C3_MigrateRestoresOnDestination ==
    (op = "migrate" /\ opResult = "Ok" /\ checkpoints # <<>>) =>
        (remoteDir = Extracted(remoteZip.blocks) /\ remoteDir = stateDir)

\* the step that failed is the last one executed and was executed once
FailedStepIsLast ==
    \A i \in DOMAIN migSteps : ~migSteps[i].ok => i = Len(migSteps)

\* C4: a failure of any transfer step makes migrate return Err to its caller,
\* without a panic, the failed step being the last step executed.
C4_TransferFailureReturnsErr ==
    (op = "migrate" /\ opFailure # "none") =>
        (opResult = "Err" /\ pc # "panicked" /\ FailedStepIsLast)

\* C5: restore_containers on the archive built from a tree, into an empty
\* destination and without I/O faults, returns Ok and leaves exactly the
\* files of the tree.
C5_RoundTrip ==
    (/\ rpc = "done"
     /\ archive = File(zip_dir(tree))
     /\ dest0 = [dirs |-> {<<>>}, files |-> {}]
     /\ restoreFailure \notin {"open", "create_io", "copy_io"}) =>
        (restoreResult = "Ok" /\ destFiles = tree)

\* C6: migrate on a backend on which checkpoint() was never called does not
\* panic, is not rejected, and on success has transferred the archive of the
\* current state directory.
C6_MigrateWithoutCheckpoint ==
    (op = "migrate" /\ batches = 0) =>
        /\ pc # "panicked"
        /\ Len(migSteps) > 0 => migSteps[1].step = "session"
        /\ opResult = "Ok" => remoteZip = File(zip_dir(stateDir))

\* C7: the registry is always the batch of the most recent successful
\* checkpoint() call (empty before the first), never a concatenation.
C7_RegistryIsLastBatch == checkpoints = lastOkBatch

C7_Witness ==
    /\ batches = 2
    /\ op = "checkpoint"
    /\ opResult = "Ok"
    /\ Len(checkpoints) = 1
    /\ {CheckpointFile(1), CheckpointFile(2)} \subseteq stateDir

\* C8: migrate returns Ok only with the whole local archive written to the
\* remote file and the remote file flushed, the flush being the last step and
\* every write before it; a failed flush makes migrate return Err.
C8_FlushedBeforeOk ==
    /\ (op = "migrate" /\ opResult = "Ok") =>
          /\ remoteZip.blocks = localZip.blocks
          /\ remoteFlushed
          /\ migSteps[Len(migSteps)] = [step |-> "flush", ok |-> TRUE]
          /\ \A i \in 1..(Len(migSteps) - 1) : migSteps[i].step # "flush"
          /\ Cardinality({ i \in DOMAIN migSteps : migSteps[i].step = "write" })
                = Len(localZip.blocks)
    /\ (op = "migrate" /\ opFailure = "flush") => opResult = "Err"

C8_Witness ==
    /\ op = "migrate"
    /\ opResult = "Ok"
    /\ Len(remoteZip.blocks) = 4

WorkerRunning == worker \in {"get_containers", "lock", "map"}

\* C9: a checkpoint batch has exactly one worker thread; the Docker client is
\* called only while that thread runs and the caller is blocked in join; the
\* caller reads the buffer and returns only after the thread has ended and
\* been joined.
C9_Bridge ==
    /\ [](/\ op = "checkpoint" => spawned = 1
          /\ pc # "ckpt_join" => ~WorkerRunning
          /\ (pc = "ckpt_read" \/ ret.kind # "none") => worker = "joined")
    /\ [][calls' # calls /\ calls' # <<>> => pc = "ckpt_join" /\ WorkerRunning]_vars

C9_Witness ==
    /\ pc = "ckpt_read"
    /\ worker = "joined"
    /\ spawned = 1
    /\ Len(calls) = 3

\* C10: an unreadable or corrupt archive, or an I/O failure while extracting,
\* makes restore_containers return Err, without a panic.
C10_ArchiveFailureReturnsErr ==
    (rpc = "done" /\ restoreFailure
        \in {"open", "corrupt_archive", "corrupt_entry", "create_io", "copy_io", "copy_crc"})
        => restoreResult = "Err"

\* C12: in a batch returned Ok, the checkpoint_name values of the records are
\* pairwise distinct.
C12_NamesDistinctInBatch ==
    (op = "checkpoint" /\ ret.kind = "Ok") =>
        \A i, j \in DOMAIN ret.val :
            i # j => ret.val[i].checkpoint_name # ret.val[j].checkpoint_name

\* the create_checkpoint requests of the log, in the order they were issued
CreateCalls == SubSeq(calls, 2, Len(calls))

\* C13: create_checkpoint is requested once per container in enumeration
\* order; a failed request is the last call of the batch, so that no later
\* container is requested and nothing is repeated or deleted; the checkpoints
\* created before the failure stay in the daemon's state directory.
C13_FailFastOrder ==
    (op = "checkpoint" /\ calls # <<>>) =>
        /\ calls[1].op = "get_containers"
        /\ Len(CreateCalls) <= Len(containers)
        /\ \A i \in DOMAIN CreateCalls :
              /\ CreateCalls[i].op = "create_checkpoint"
              /\ CreateCalls[i].id = containers[i]
              /\ CreateCalls[i].ok => CheckpointFile(containers[i]) \in stateDir
        /\ \A i \in DOMAIN calls : ~calls[i].ok => i = Len(calls)
        /\ (pc = "idle" /\ opFailure = "none") => Len(CreateCalls) = Len(containers)

C13_Witness ==
    /\ op = "checkpoint"
    /\ pc = "panicked"
    /\ opFailure = "create_checkpoint"
    /\ batches = 1
    /\ Len(containers) = 2
    /\ Len(calls) = 3
    /\ calls[2].ok /\ ~calls[3].ok
    /\ CheckpointFile(containers[1]) \in stateDir
    /\ CheckpointFile(containers[2]) \notin stateDir

\* the place of a step in restore_all_containers
StepRank(step) ==
    CASE step = "session"   -> 1
      [] step = "subsystem" -> 2
      [] step = "sftp"      -> 3
      [] step = "zip"       -> 4
      [] step = "create"    -> 5
      [] step = "open"      -> 6
      [] step = "write"     -> 7
      [] step = "flush"     -> 8

\* the step has been executed and succeeded
StepDone(step) == \E i \in DOMAIN migSteps : migSteps[i] = [step |-> step, ok |-> TRUE]

\* C14: the steps of migrate are executed in the order session, subsystem,
\* (sftp), zip, create, (open), write.., flush, each after the success of all
\* the steps before it; the local archive and the remote file are written only
\* after the session and the subsystem were established, so that a failure of
\* either leaves both files as they were.
C14_FixedStepOrder ==
    /\ [](op = "migrate" =>
            /\ \A i \in DOMAIN migSteps :
                  /\ i = 1 => migSteps[i].step = "session"
                  /\ i > 1 =>
                        /\ migSteps[i - 1].ok
                        /\ StepRank(migSteps[i].step) - StepRank(migSteps[i - 1].step)
                              \in (IF migSteps[i].step = "write" THEN {0, 1} ELSE {1})
            /\ opFailure \in {"session", "subsystem"} =>
                  ~StepDone("zip") /\ ~StepDone("create"))
    /\ [][(localZip' # localZip \/ remoteZip' # remoteZip) =>
            (op = "migrate" /\ StepDone("session") /\ StepDone("subsystem"))]_vars

C14_Witness ==
    /\ op = "migrate"
    /\ pc = "idle"
    /\ opFailure = "subsystem"
    /\ opResult = "Err"
    /\ stateDir # {}
    /\ localZip = NoFile
    /\ remoteZip = NoFile

\* C16: a checkpoint() call that fails does not change the registry, which
\* still holds the batch of the last successful call and not what the failed
\* call had collected.
C16_FailedCheckpointKeepsRegistry ==
    /\ [][(op' = "checkpoint" /\ opResult' \in {"Err", "panic"}) =>
            checkpoints' = checkpoints]_vars
    /\ []((op = "checkpoint" /\ opResult \in {"Err", "panic"}) =>
            checkpoints = lastOkBatch)

C16_Witness ==
    /\ op = "checkpoint"
    /\ opResult = "panic"
    /\ batches = 2
    /\ Len(checkpoints) = 2
    /\ Len(collected) = 1

\* the containers that have a record in the registry
CapturedIds == { checkpoints[i].container_id : i \in DOMAIN checkpoints }

\* C17: migrate never changes the registry and never calls the Docker client,
\* and what it archives is the whole state directory, whatever the registry
\* holds.
C17_MigrateFrame ==
    /\ [][(op' = "migrate") => checkpoints' = checkpoints]_vars
    /\ [](op = "migrate" =>
            /\ calls = <<>>
            /\ StepDone("zip") => localZip = File(zip_dir(stateDir)))

C17_Witness ==
    /\ op = "migrate"
    /\ opResult = "Ok"
    /\ checkpoints # <<>>
    /\ \E f \in stateDir : f.name[1] \notin CapturedIds
    /\ remoteZip = File(zip_dir(stateDir))

\* the entry the central directory lists at index i, as a file
EntryFile(i) == [name |-> archive.blocks[i + 1].name, data |-> archive.blocks[i + 1].data]

\* the files of a directory state at a path
FilesAt(files, path) == { f \in files : f.name = path }

\* C15: entries are extracted in archive order and nothing is rolled back:
\* at every point of the loop, and so when the entry at index k = entryIdx
\* fails, each entry before k is in the destination with its whole data, a
\* file that was there before having been replaced, and the path of each
\* entry after k is as it was before the call.
C15_SequentialNoRollback ==
    /\ [](rpc \in {"loop", "done"} /\ HasCentralDirectory(archive) =>
            /\ \A j \in 0..(entryIdx - 1) :
                  FilesAt(destFiles, EntryFile(j).name) = {EntryFile(j)}
            /\ \A j \in (entryIdx + 1)..(ArchiveLen(archive) - 1) :
                  LET path == archive.blocks[Len(archive.blocks)].names[j + 1]
                  IN FilesAt(destFiles, path) = FilesAt(dest0.files, path))
    /\ [][entryIdx' \in {entryIdx, entryIdx + 1}]_vars

C15_Witness ==
    /\ rpc = "done"
    /\ restoreResult = "Err"
    /\ HasCentralDirectory(archive)
    /\ ArchiveLen(archive) = 3
    /\ entryIdx = 1
    /\ EntryFile(0).name = <<"a.txt">>
    /\ [name |-> <<"a.txt">>, data |-> "old"] \in dest0.files
    /\ EntryFile(0) \in destFiles
    /\ FilesAt(destFiles, EntryFile(2).name) = {}

\* the complete archives built by the instances that built one
BuiltArchives == { inst[i].zipped : i \in { j \in Instances : inst[j].zipped # <<>> } }

\* C11: nothing keeps an instance from using the fixed paths while the other
\* one uses them: an instance that has reached zip_dir can always take that
\* step; and when both migrates returned Ok with a remote file that is a copy
\* of neither archive, the two calls did use the paths at the same time.
C11_UnserializedPaths ==
    /\ \A i \in Instances : inst[i].pc = "zip" => ENABLED InstZipDir(i)
    /\ ((\A i \in Instances : inst[i].result = "Ok")
            /\ remoteZip.blocks \notin BuiltArchives)
          => \E i \in Instances : inst[i].overlapped

\* both migrates returned Ok and the remote file is a copy of neither archive
C11_Witness ==
    /\ \A i \in Instances : inst[i].result = "Ok"
    /\ \E i \in Instances : inst[i].overlapped
    /\ remoteFlushed
    /\ remoteZip.blocks \notin BuiltArchives

====
